---- MODULE Spec2Model ----
(***************************************************************************)
(* Model of the two batch downloaders of this repository:                  *)
(*   src/mgstage/mgstage_downloader.py  (MGStageDownloader)                *)
(*   src/nanairo/nanairo_downloader.py  (NanairoDownloader)                *)
(*                                                                         *)
(* Spec, SpecIO : the job coordinator (run / process_id /                  *)
(*                _remove_id_from_file) with the ledger files, the lock    *)
(*                and the worker pool; download_video is a chain of stages *)
(*                whose results the network decides.  The ledger file      *)
(*                operations complete in Spec; SpecIO adds the I/O errors  *)
(*                they can raise.                                          *)
(* SpecJob      : download_video and decrypt_video of both pipelines step  *)
(*                by step on the files of one identifier, run by the jobs  *)
(*                of a work list that names that identifier more than once *)
(*                (the jobs of different identifiers share no file).       *)
(***************************************************************************)
EXTENDS Integers, Sequences, FiniteSets, TLC

\* Longest work list explored.
MaxIds == 2

\* Largest worker-pool size explored (config key download_threads).
MaxWorkers == 2

\* Identifiers a work-list line may hold.  "a" and "A" differ only in case.
CidNames == {"a", "A", "b"}

\* Numeric identifiers of the nanairo pipeline, as the decimal text of a line.
VidNames == {"1", "2"}

\* A line left in the failed ledger by an earlier run.
StaleLine == "old"
\* A line of a nanairo work list that is not a number.
NonDigitLine == "x"

RECURSIVE SeqsUpTo(_, _)
SeqsUpTo(S, n) ==
    IF n = 0 THEN {<< >>}
    ELSE LET shorter == SeqsUpTo(S, n - 1)
         IN  shorter \cup {Append(s, x) : s \in {t \in shorter : Len(t) = n - 1}, x \in S}

Range(s) == {s[i] : i \in 1..Len(s)}

\* str.lower() on the identifiers of the model.
Lower(s) == CASE s = "A" -> "a" [] OTHER -> s

\* str.upper() on the identifiers of the model.
Upper(s) == CASE s = "a" -> "A" [] s = "b" -> "B" [] OTHER -> s

VARIABLES
    pipeline,          \* "mgstage" or "nanairo": which downloader runs
    download_threads,  \* self.download_threads
    ids_file,          \* lines of the work-list file (pending ledger)
    failed_file,       \* lines of the failed-ledger file
    ids,               \* run: the list read from the work-list file
    runpc,             \* position of run()
    pc,                \* per job (index into ids): position of process_id
    outcome,           \* per job: what process_id returned ("none" before)
    faulted,           \* per job: an exception was raised while it was processed
    lock,              \* failed_lock: 0 when free, else the job holding it
    lines,             \* per job: the local `lines` of _remove_id_from_file
    wjob,              \* per pool thread: the job it runs, 0 when idle
    success_count,     \* run: success_count
    fail_count,        \* run: fail_count
    jpc,               \* per job: position inside download_video / decrypt_video
    fs,                \* the files of one identifier's paths
    tool_present,      \* the external executable exists at its configured path
    calls,             \* per job: the stages download_video has entered, in order
    acts,              \* per job: GET transfers begun and external tool runs so far
    jret,              \* per job: "fail" once a stage of download_video has reported
                       \* failure, "ok" once it returned True, "none" before
    server,            \* download_file: the resource behind url (size, Range support)
    disk,              \* download_file: the file at output_path
    dl,                \* download_file: the locals and the position of one call
    mpd,               \* parse_manifest: the BaseURL elements of the manifest document
    parsed,            \* parse_manifest: position and returned (video_url, audio_url)
    api,               \* search_video, get_play_info: the responses and what is returned
    page,              \* extract_video_title, _sanitize_filename: the argument and the result
    past,              \* the runs made before, each with its number of jobs and successes
    ids_exists         \* ids_path.exists(): the work-list file is there

vars == << pipeline, download_threads, ids_file, failed_file, ids, runpc, pc,
           outcome, faulted, lock, lines, wjob, success_count, fail_count,
           jpc, fs, tool_present, calls, acts, jret, server, disk, dl, mpd, parsed,
           api, page, past, ids_exists >>

config  == << pipeline, download_threads >>
\* The state of the stage functions that are modelled on their own.
stageVars == << server, disk, dl, mpd, parsed, api, page >>
\* What a run does not change: the runs before it and the presence of the
\* work-list file.
runCtx == << past, ids_exists >>
counts  == << success_count, fail_count >>
jobVars == << jpc, fs, tool_present, calls, acts, jret >>
coordVars == << ids_file, failed_file, runpc, pc, outcome, faulted, lock, lines,
               wjob, success_count, fail_count >>

\* The files of one identifier: the raw video and audio downloads, the
\* temporary and the final output of the decrypt tool (mgstage), and the
\* file the external downloader saves (nanairo).  No file exists.
NoFiles == [video |-> "absent", audio |-> "absent", temp |-> FALSE,
            final |-> "absent", saved |-> {}]

Jobs == 1..Len(ids)

\* The stages download_video runs, in the order it calls them.
Chain(p) ==
    IF p = "mgstage"
    THEN << "Resolving", "Parsing", "Fetching", "Finalizing" >>
    ELSE << "Resolving", "Fetching" >>

Stages == {"Resolving", "Parsing", "Fetching", "Finalizing"}

StageIndex(p, s) == CHOOSE k \in 1..Len(Chain(p)) : Chain(p)[k] = s

\* Where download_video goes after stage s returned success.
AfterStage(p, s) ==
    IF StageIndex(p, s) = Len(Chain(p)) THEN "success"
    ELSE Chain(p)[StageIndex(p, s) + 1]

\* run of the nanairo pipeline takes the plain for-loop unless download_threads > 1.
Sequential == pipeline = "nanairo" /\ ~(download_threads > 1)

\* The work-list files a run is started on, as their stripped non-empty
\* lines; for the nanairo pipeline also a file whose only line is no number.
WorkLists(p) ==
    IF p = "mgstage" THEN SeqsUpTo(CidNames, MaxIds)
    ELSE SeqsUpTo(VidNames, MaxIds) \cup {<< NonDigitLine >>}

\* The identifiers run reads from the file: every stripped non-empty line
\* (mgstage), the lines for which line.isdigit() holds (nanairo run_from_file).
Identifiers(p, file) ==
    IF p = "mgstage" THEN file
    ELSE SelectSeq(file, LAMBDA line : line \in VidNames)

\* Most runs made one after the other on the same files.
MaxRuns == 2

\* The locals of download_file before a call.
IdleDl == [pc |-> "idle", total_size |-> 0, downloaded_size |-> 0, range |-> -1,
           status |-> 0, content_length |-> 0, mode |-> "none", body |-> << >>,
           probe |-> "none", probed |-> 0, gets |-> 0, ret |-> "none",
           before |-> [exists |-> FALSE, data |-> << >>], ncalls |-> 0]

\* parse_manifest before a call; the empty sequence stands for None.
IdleParsed == [pc |-> "idle", fetched |-> FALSE, video_url |-> << >>,
               audio_url |-> << >>, best |-> 0]

\* search_video and get_play_info before a call: the search response (hits
\* and the pid of each element of contents, "" for a missing or empty pid),
\* the position in contents of the element search_video returned (0 for
\* None), and for each call of get_play_info made so far what happened and
\* the value returned.
IdleApi == [pc |-> "idle", hits |-> 0, contents |-> << >>, answered |-> FALSE,
            found |-> 0, pid |-> "", detail |-> << >>]

\* extract_video_title and _sanitize_filename before a call: the text handed
\* in (a sequence of characters), which of the two was called, the tag and
\* the identifier of the page, and the string returned.
IdlePage == [pc |-> "idle", text |-> << >>, tagged |-> FALSE, video_id |-> << >>,
             ret |-> << >>]

\* No stage function is being looked at on its own.
NoStage ==
    /\ server = [size |-> 1, ranges |-> TRUE]
    /\ disk = [exists |-> FALSE, data |-> << >>]
    /\ dl = IdleDl
    /\ api = IdleApi
    /\ mpd = << >>
    /\ parsed = IdleParsed
    /\ page = IdlePage

Init ==
    /\ NoStage
    /\ past = << >>
    /\ pipeline \in {"mgstage", "nanairo"}
    /\ download_threads \in 1..MaxWorkers
    /\ ids_exists \in BOOLEAN
    /\ ids_file \in (IF ids_exists THEN WorkLists(pipeline) ELSE {<< >>})
    /\ failed_file = << StaleLine >>
    /\ ids = << >>
    /\ runpc = "start"
    /\ pc = << >>
    /\ outcome = << >>
    /\ faulted = << >>
    /\ lock = 0
    /\ lines = << >>
    /\ wjob = [w \in 1..download_threads |-> 0]
    /\ success_count = 0
    /\ fail_count = 0
    /\ jpc = << >>
    /\ fs = << >>
    /\ tool_present = TRUE
    /\ calls = << >>
    /\ acts = << >>
    /\ jret = << >>

\* Mutation of RunStart: the failed file is cleared before the work list
\* is looked at.
RunStartClearsFirst ==
    /\ runpc = "start"
    /\ failed_file' = << >>
    /\ LET read == Identifiers(pipeline, ids_file)
       IN  IF ~ids_exists \/ read = << >>
           THEN /\ runpc' = "returned"
                /\ UNCHANGED << ids, pc, outcome, faulted, lines >>
           ELSE /\ ids' = read
                /\ runpc' = "running"
                /\ pc' = [j \in 1..Len(read) |-> "queued"]
                /\ outcome' = [j \in 1..Len(read) |-> "none"]
                /\ faulted' = [j \in 1..Len(read) |-> FALSE]
                /\ lines' = [j \in 1..Len(read) |-> << >>]
    /\ UNCHANGED << config, runCtx, stageVars, jobVars, ids_file, lock, wjob, counts >>

\* run (mgstage) and run_from_file (nanairo) up to the dispatch: return when
\* the work-list file does not exist or gives no identifier; otherwise
\* clear the failed file and set up the jobs.
RunStart ==
    /\ runpc = "start"
    /\ LET read == Identifiers(pipeline, ids_file)
       IN  IF ~ids_exists \/ read = << >>
           THEN /\ runpc' = "returned"
                /\ UNCHANGED << ids, failed_file, pc, outcome, faulted, lines >>
           ELSE /\ ids' = read
                /\ failed_file' = << >>
                /\ runpc' = "running"
                /\ pc' = [j \in 1..Len(read) |-> "queued"]
                /\ outcome' = [j \in 1..Len(read) |-> "none"]
                /\ faulted' = [j \in 1..Len(read) |-> FALSE]
                /\ lines' = [j \in 1..Len(read) |-> << >>]
    /\ UNCHANGED << config, runCtx, stageVars, jobVars, ids_file, lock, wjob, counts >>

\* Mutation of FreeWorkers: a thread is taken whether or not it runs a job.
FreeWorkersAny == 1..download_threads

\* The pool threads that run no job.
FreeWorkers == {w \in 1..download_threads : wjob[w] = 0}

\* ThreadPoolExecutor: the submitted calls are queued in list order, and a
\* thread that runs no job takes the head of the queue.  The threads are
\* interchangeable, so the lowest-numbered idle one stands for any of them.
Start(j) ==
    /\ runpc = "running"
    /\ ~Sequential
    /\ pc[j] = "queued"
    /\ \A i \in 1..(j - 1) : pc[i] # "queued"
    /\ FreeWorkers # {}
    /\ LET w == CHOOSE x \in FreeWorkers : \A y \in FreeWorkers : x <= y
       IN  wjob' = [wjob EXCEPT ![w] = j]
    /\ pc' = [pc EXCEPT ![j] = Chain(pipeline)[1]]
    /\ UNCHANGED << config, runCtx, stageVars, jobVars, ids_file, failed_file, ids, runpc, outcome, faulted,
                    lock, lines, counts >>

\* The for-loop of the nanairo run: the next identifier is processed once
\* the previous call of process_id returned and was counted.
SeqStart(j) ==
    /\ runpc = "running"
    /\ Sequential
    /\ pc[j] = "queued"
    /\ \A i \in 1..(j - 1) : pc[i] = "collected"
    /\ wjob' = [wjob EXCEPT ![1] = j]
    /\ pc' = [pc EXCEPT ![j] = Chain(pipeline)[1]]
    /\ UNCHANGED << config, runCtx, stageVars, jobVars, ids_file, failed_file, ids, runpc, outcome, faulted,
                    lock, lines, counts >>

\* process_id returns (or raises, res = "exc"): the thread is free again.
Return(j, res) ==
    /\ pc' = [pc EXCEPT ![j] = "finished"]
    /\ outcome' = [outcome EXCEPT ![j] = res]
    /\ wjob' = [w \in DOMAIN wjob |-> IF wjob[w] = j THEN 0 ELSE wjob[w]]

\* What process_id does with the result of download_video: on success the
\* mgstage pipeline goes on to _remove_id_from_file, the nanairo pipeline
\* returns; on failure it appends to the failed ledger; on an exception the
\* except clause appends.
AfterDownload(j, r) ==
    IF r = "success" /\ pipeline = "nanairo"
    THEN /\ Return(j, "ok")
         /\ UNCHANGED faulted
    ELSE /\ pc' = [pc EXCEPT ![j] = CASE r = "success" -> "wantP"
                                      [] r = "failure" -> "wantF"
                                      [] OTHER         -> "wantX"]
         /\ faulted' = [faulted EXCEPT ![j] = @ \/ (r = "exception")]
         /\ UNCHANGED << outcome, wjob >>

\* download_video: the stage the job is in returns success.
StageOk(j) ==
    /\ pc[j] \in Stages
    /\ LET nxt == AfterStage(pipeline, pc[j])
       IN  IF nxt = "success"
           THEN AfterDownload(j, "success")
           ELSE /\ pc' = [pc EXCEPT ![j] = nxt]
                /\ UNCHANGED << outcome, faulted, wjob >>
    /\ UNCHANGED << config, runCtx, stageVars, jobVars, ids_file, failed_file, ids, runpc, lock, lines, counts >>

\* download_video: the stage the job is in returns failure: return False.
StageFail(j) ==
    /\ pc[j] \in Stages
    /\ AfterDownload(j, "failure")
    /\ UNCHANGED << config, runCtx, stageVars, jobVars, ids_file, failed_file, ids, runpc, lock, lines, counts >>

\* download_video: an exception escapes the stage the job is in.
StageRaise(j) ==
    /\ pc[j] \in Stages
    /\ AfterDownload(j, "exception")
    /\ UNCHANGED << config, runCtx, stageVars, jobVars, ids_file, failed_file, ids, runpc, lock, lines, counts >>

\* mgstage download_video, after the manifest was parsed: the decrypted
\* file exists already, return True without download and decrypt.
AlreadyDecrypted(j) ==
    /\ pipeline = "mgstage"
    /\ pc[j] = "Parsing"
    /\ AfterDownload(j, "success")
    /\ UNCHANGED << config, runCtx, stageVars, jobVars, ids_file, failed_file, ids, runpc, lock, lines, counts >>

\* Mutation of LockFree: the ledger updates are not guarded by the lock.
LockFreeAlways == TRUE

\* with failed_lock: entered when no other thread is inside it.
LockFree == lock = 0

\* process_id, failure branch and except clause: enter `with failed_lock`.
AcquireAppend(j) ==
    /\ pc[j] \in {"wantF", "wantX"}
    /\ LockFree
    /\ lock' = j
    /\ pc' = [pc EXCEPT ![j] = IF pc[j] = "wantF" THEN "appF" ELSE "appX"]
    /\ UNCHANGED << config, runCtx, stageVars, jobVars, ids_file, failed_file, ids, runpc, outcome, faulted,
                    lines, wjob, counts >>

\* Mutation of AppendLine: the line is not written.
AppendLineLost(file, cid) == file

\* open(failed_file, 'a'); f.write(cid + "\n")
AppendLine(file, cid) == Append(file, cid)

\* process_id: append the identifier, leave the lock, return False.
AppendFailed(j) ==
    /\ pc[j] \in {"appF", "appX"}
    /\ failed_file' = AppendLine(failed_file, ids[j])
    /\ lock' = 0
    /\ Return(j, "fail")
    /\ UNCHANGED << config, runCtx, stageVars, jobVars, ids_file, ids, runpc, faulted, lines, counts >>

\* _remove_id_from_file: enter `with failed_lock` and read the lines.
AcquireRead(j) ==
    /\ pc[j] = "wantP"
    /\ LockFree
    /\ lock' = j
    /\ lines' = [lines EXCEPT ![j] = ids_file]
    /\ pc' = [pc EXCEPT ![j] = "writeP"]
    /\ UNCHANGED << config, runCtx, stageVars, jobVars, ids_file, failed_file, ids, runpc, outcome, faulted,
                    wjob, counts >>

\* Mutation of Remaining: the filter compares the lines case-sensitively.
RemainingCaseSensitive(ls, cid) ==
    LET Keep(l) == l # cid
    IN  SelectSeq(ls, Keep)

\* Mutation of Remaining: no line is filtered out.
RemainingKeepsAll(ls, cid) == ls

\* remaining = [line for line in lines if line.strip().lower() != cid.lower()]
Remaining(ls, cid) ==
    LET Keep(l) == Lower(l) # Lower(cid)
    IN  SelectSeq(ls, Keep)

\* _remove_id_from_file: rewrite the file without the identifier, leave the
\* lock; process_id returns True.
WriteRemaining(j) ==
    /\ pc[j] = "writeP"
    /\ ids_file' = Remaining(lines[j], ids[j])
    /\ lines' = [lines EXCEPT ![j] = << >>]
    /\ lock' = 0
    /\ Return(j, "ok")
    /\ UNCHANGED << config, runCtx, stageVars, jobVars, failed_file, ids, runpc, faulted, counts >>

\* Mutation of Collect: every finished call is counted as a success.
CollectAllSuccess(j) ==
    /\ runpc = "running"
    /\ pc[j] = "finished"
    /\ pc' = [pc EXCEPT ![j] = "collected"]
    /\ success_count' = success_count + 1
    /\ UNCHANGED << config, runCtx, stageVars, jobVars, ids_file, failed_file, ids, runpc, outcome,
                    faulted, lock, lines, wjob, fail_count >>

\* run: the loop over the finished calls adds one to success_count when the
\* call returned True, else (False, or an exception of the future) to fail_count.
Collect(j) ==
    /\ runpc = "running"
    /\ pc[j] = "finished"
    /\ outcome[j] # "exc" \/ ~Sequential
    /\ pc' = [pc EXCEPT ![j] = "collected"]
    /\ IF outcome[j] = "ok"
       THEN success_count' = success_count + 1 /\ UNCHANGED fail_count
       ELSE fail_count' = fail_count + 1 /\ UNCHANGED success_count
    /\ UNCHANGED << config, runCtx, stageVars, jobVars, ids_file, failed_file, ids, runpc, outcome, faulted,
                    lock, lines, wjob >>

\* run: every call was counted; log the totals.
Report ==
    /\ runpc = "running"
    /\ \A j \in Jobs : pc[j] = "collected"
    /\ runpc' = "done"
    /\ UNCHANGED << config, runCtx, stageVars, jobVars, ids_file, failed_file, ids, pc, outcome, faulted,
                    lock, lines, wjob, counts >>

\* The program is started again on the same files after a run in which
\* every job succeeded: the new run has its own ids, jobs and counters.
RerunAfterSuccess ==
    /\ runpc = "done"
    /\ success_count = Len(ids)
    /\ Len(past) + 1 < MaxRuns
    /\ past' = Append(past, [jobs |-> Len(ids), ok |-> success_count])
    /\ runpc' = "start"
    /\ ids' = << >>
    /\ pc' = << >>
    /\ outcome' = << >>
    /\ faulted' = << >>
    /\ lines' = << >>
    /\ wjob' = [w \in 1..download_threads |-> 0]
    /\ success_count' = 0
    /\ fail_count' = 0
    /\ UNCHANGED << config, ids_exists, stageVars, jobVars, ids_file, failed_file, lock >>

Next ==
    \/ RunStart
    \/ \E j \in Jobs : Start(j)
    \/ \E j \in Jobs : SeqStart(j)
    \/ \E j \in Jobs : StageOk(j)
    \/ \E j \in Jobs : StageFail(j)
    \/ \E j \in Jobs : StageRaise(j)
    \/ \E j \in Jobs : AlreadyDecrypted(j)
    \/ \E j \in Jobs : AcquireAppend(j)
    \/ \E j \in Jobs : AppendFailed(j)
    \/ \E j \in Jobs : AcquireRead(j)
    \/ \E j \in Jobs : WriteRemaining(j)
    \/ \E j \in Jobs : Collect(j)
    \/ Report

Spec == Init /\ [][Next]_vars

\* The run in which every thread that can take a step eventually takes one:
\* the pool threads and the loop of run are scheduled by the operating
\* system, every stage call returns, and the lock is released by the `with`
\* statement that took it.
SpecFair == Spec /\ WF_vars(Next)

\* Runs made one after the other on the same work-list and failed files.
NextRerun ==
    \/ Next
    \/ RerunAfterSuccess

SpecRerun == Init /\ [][NextRerun]_vars

(***************************************************************************)
(* I/O errors of the ledger file operations (SpecIO).                      *)
(***************************************************************************)

\* process_id, failure branch: open or write of the failed ledger raises
\* inside the try block; the `with` leaves the lock and the except clause
\* is entered.
AppendFault(j) ==
    /\ pc[j] = "appF"
    /\ lock' = 0
    /\ pc' = [pc EXCEPT ![j] = "wantX"]
    /\ faulted' = [faulted EXCEPT ![j] = TRUE]
    /\ UNCHANGED << config, runCtx, stageVars, jobVars, ids_file, failed_file, ids, runpc, outcome,
                    lines, wjob, counts >>

\* process_id, except clause: open or write of the failed ledger raises; the
\* exception leaves process_id.  In the pool it is kept by the future, in
\* the sequential loop of the nanairo run nothing catches it and run ends.
AppendFaultInExcept(j) ==
    /\ pc[j] = "appX"
    /\ lock' = 0
    /\ faulted' = [faulted EXCEPT ![j] = TRUE]
    /\ Return(j, "exc")
    /\ runpc' = IF Sequential THEN "crashed" ELSE runpc
    /\ UNCHANGED << config, runCtx, stageVars, jobVars, ids_file, failed_file, ids, lines, counts >>

\* _remove_id_from_file: an I/O error inside the try block is logged and
\* swallowed; the file is as it was when open failed, or empty when the
\* write failed after open(ids_file, 'w') truncated it.  process_id returns True.
RemoveFault(j) ==
    /\ pc[j] = "writeP"
    /\ ids_file' \in {ids_file, << >>}
    /\ lines' = [lines EXCEPT ![j] = << >>]
    /\ lock' = 0
    /\ faulted' = [faulted EXCEPT ![j] = TRUE]
    /\ Return(j, "ok")
    /\ UNCHANGED << config, runCtx, stageVars, jobVars, failed_file, ids, runpc, counts >>

NextIO ==
    \/ Next
    \/ \E j \in Jobs : AppendFault(j)
    \/ \E j \in Jobs : AppendFaultInExcept(j)
    \/ \E j \in Jobs : RemoveFault(j)

SpecIO == Init /\ [][NextIO]_vars

(***************************************************************************)
(* download_video and decrypt_video, step by step (SpecJob).               *)
(***************************************************************************)

\* Most jobs of one work list that name the same identifier.
MaxSame == 2

\* Work lists whose lines all name the same files (cid.upper() is the
\* same): a, A, a, ... for the mgstage pipeline, 1, 1, ... for nanairo.
SameLists(p) ==
    {[j \in 1..n |-> IF p = "nanairo" THEN "1" ELSE IF j % 2 = 1 THEN "a" ELSE "A"] :
        n \in 1..MaxSame}

\* The key of the paths of an identifier: output_dir/<CID>_video.mp4,
\* output_dir/<CID>_audio.mp4, temp_dir/<CID>.mkv, decrypted_dir/<CID>.mkv
\* with CID = cid.upper(); output_dir/<video_id>... for the nanairo pipeline.
PathKey(p, cid) == IF p = "mgstage" THEN Upper(cid) ELSE cid

\* The extensions download_with_n_m3u8dl looks for, and the extensions of
\* the files named <output_name>.* that may lie in the output directory.
KnownExts == {".mp4", ".mkv", ".ts"}
SavedExts == KnownExts \cup {".tmp"}

\* The files a run may find: what earlier runs, finished or interrupted, left.
FileStates(p) ==
    IF p = "mgstage"
    THEN [video : {"absent", "partial", "complete"},
          audio : {"absent", "partial", "complete"},
          temp  : BOOLEAN,
          final : {"absent", "partial", "complete"},
          saved : {{}}]
    ELSE [video : {"absent"}, audio : {"absent"}, temp : {FALSE},
          final : {"absent"}, saved : SUBSET SavedExts]

InitJob ==
    /\ NoStage
    /\ past = << >>
    /\ ids_exists = TRUE
    /\ pipeline \in {"mgstage", "nanairo"}
    /\ ids \in SameLists(pipeline)
    /\ download_threads = Len(ids)
    /\ fs \in [{PathKey(pipeline, c) : c \in Range(ids)} -> FileStates(pipeline)]
    /\ tool_present \in BOOLEAN
    /\ jpc = [j \in 1..Len(ids) |-> "begin"]
    /\ calls = [j \in 1..Len(ids) |-> << >>]
    /\ acts = [j \in 1..Len(ids) |-> [get |-> 0, tool |-> 0]]
    /\ jret = [j \in 1..Len(ids) |-> "none"]
    /\ ids_file = ids
    /\ failed_file = << >>
    /\ runpc = "running"
    /\ pc = << >>
    /\ outcome = << >>
    /\ faulted = << >>
    /\ lock = 0
    /\ lines = << >>
    /\ wjob = [w \in 1..download_threads |-> w]
    /\ success_count = 0
    /\ fail_count = 0

Key(j) == PathKey(pipeline, ids[j])
File(j) == fs[Key(j)]

\* download_video returns r.
Ret(j, r) ==
    /\ jpc' = [jpc EXCEPT ![j] = "ret"]
    /\ jret' = [jret EXCEPT ![j] = r]

\* download_video goes on at position q.
Goto(j, q) ==
    /\ jpc' = [jpc EXCEPT ![j] = q]
    /\ UNCHANGED jret

Enter(j, stage) == calls' = [calls EXCEPT ![j] = Append(@, stage)]

SetFile(j, field, v) == fs' = [fs EXCEPT ![Key(j)][field] = v]

\* mgstage download_video, steps 1 and 2: search_video, the pid of the
\* result, get_play_info.  Any of them failing returns False.
Resolve(j) ==
    /\ pipeline = "mgstage"
    /\ jpc[j] = "begin"
    /\ Enter(j, "Resolving")
    /\ \E ok \in BOOLEAN : IF ok THEN Goto(j, "parse") ELSE Ret(j, "fail")
    /\ UNCHANGED << config, runCtx, stageVars, coordVars, ids, fs, tool_present, acts >>

\* Mutation of Parse: the test after parse_manifest is missing, and
\* download_video goes on although the manifest gave no URLs.
ParseGoesOn(j) ==
    /\ jpc[j] = "parse"
    /\ Enter(j, "Parsing")
    /\ \E found \in {"both", "video_only", "none"} :
          /\ jpc' = [jpc EXCEPT ![j] = "chk_final"]
          /\ jret' = [jret EXCEPT ![j] = IF found = "both" THEN @ ELSE "fail"]
    /\ UNCHANGED << config, runCtx, stageVars, coordVars, ids, fs, tool_present, acts >>

\* mgstage download_video, step 3: parse_manifest, and the test
\* `if not video_url or not audio_url: return False`.
Parse(j) ==
    /\ jpc[j] = "parse"
    /\ Enter(j, "Parsing")
    /\ \E found \in {"both", "video_only", "none"} :
          IF found = "both" THEN Goto(j, "chk_final") ELSE Ret(j, "fail")
    /\ UNCHANGED << config, runCtx, stageVars, coordVars, ids, fs, tool_present, acts >>

\* `if output_file.exists(): return True`
CheckDecrypted(j) ==
    /\ jpc[j] = "chk_final"
    /\ IF File(j).final # "absent" THEN Ret(j, "ok") ELSE Goto(j, "chk_video")
    /\ UNCHANGED << config, runCtx, stageVars, coordVars, ids, fs, tool_present, calls, acts >>

\* `if not video_file.exists()` / `if not audio_file.exists()`: the
\* download is skipped when the file exists, whatever its size.
CheckRaw(j) ==
    /\ jpc[j] \in {"chk_video", "chk_audio"}
    /\ LET f == IF jpc[j] = "chk_video" THEN "video" ELSE "audio"
       IN  /\ IF f = "video" THEN Enter(j, "Fetching") ELSE UNCHANGED calls
           /\ IF File(j)[f] # "absent"
              THEN Goto(j, IF f = "video" THEN "chk_audio" ELSE "dec_chk_final")
              ELSE Goto(j, IF f = "video" THEN "get_video" ELSE "get_audio")
    /\ UNCHANGED << config, runCtx, stageVars, coordVars, ids, fs, tool_present, acts >>

\* download_file up to open(output_path, mode): the HEAD probe or the GET
\* fails (return False); or the file has appeared meanwhile and is complete
\* (return True); or the transfer starts and the file exists from now on.
GetBegin(j) ==
    /\ jpc[j] \in {"get_video", "get_audio"}
    /\ LET f == IF jpc[j] = "get_video" THEN "video" ELSE "audio"
       IN  \/ /\ Ret(j, "fail")
              /\ UNCHANGED << fs, acts >>
           \/ /\ File(j)[f] = "complete"
              /\ Goto(j, IF f = "video" THEN "chk_audio" ELSE "dec_chk_final")
              /\ UNCHANGED << fs, acts >>
           \/ /\ Goto(j, IF f = "video" THEN "write_video" ELSE "write_audio")
              /\ SetFile(j, f, IF File(j)[f] = "complete" THEN "complete" ELSE "partial")
              /\ acts' = [acts EXCEPT ![j].get = @ + 1]
    /\ UNCHANGED << config, runCtx, stageVars, coordVars, ids, tool_present, calls >>

\* download_file, the chunk loop: it ends with the whole body written
\* (return True) or an error leaves what was written (return False).  A
\* file unlinked meanwhile stays absent at its path.
GetEnd(j) ==
    /\ jpc[j] \in {"write_video", "write_audio"}
    /\ LET f == IF jpc[j] = "write_video" THEN "video" ELSE "audio"
       IN  \/ /\ Ret(j, "fail")
              /\ UNCHANGED fs
           \/ /\ Goto(j, IF f = "video" THEN "chk_audio" ELSE "dec_chk_final")
              /\ SetFile(j, f, IF File(j)[f] = "absent" THEN "absent" ELSE "complete")
    /\ UNCHANGED << config, runCtx, stageVars, coordVars, ids, tool_present, calls, acts >>

\* Mutation of DecCheckFinal: the test of the final artifact is missing.
DecCheckFinalSkipped(j) ==
    /\ jpc[j] = "dec_chk_final"
    /\ Enter(j, "Finalizing")
    /\ Goto(j, "dec_chk_tool")
    /\ UNCHANGED << config, runCtx, stageVars, coordVars, ids, fs, tool_present, acts >>

\* decrypt_video: `if final_output_file.exists(): return True`
DecCheckFinal(j) ==
    /\ jpc[j] = "dec_chk_final"
    /\ Enter(j, "Finalizing")
    /\ IF File(j).final # "absent" THEN Ret(j, "ok") ELSE Goto(j, "dec_chk_tool")
    /\ UNCHANGED << config, runCtx, stageVars, coordVars, ids, fs, tool_present, acts >>

\* decrypt_video: `if not self.jav_it_path.exists(): return False`
DecCheckTool(j) ==
    /\ jpc[j] = "dec_chk_tool"
    /\ IF tool_present THEN Goto(j, "dec_chk_temp") ELSE Ret(j, "fail")
    /\ UNCHANGED << config, runCtx, stageVars, coordVars, ids, fs, tool_present, calls, acts >>

\* decrypt_video: `if temp_output_file.exists():`
DecCheckTemp(j) ==
    /\ jpc[j] = "dec_chk_temp"
    /\ Goto(j, IF File(j).temp THEN "dec_unlink_temp" ELSE "dec_run")
    /\ UNCHANGED << config, runCtx, stageVars, coordVars, ids, fs, tool_present, calls, acts >>

\* decrypt_video: `temp_output_file.unlink()`; a file that is gone raises
\* FileNotFoundError, which the outer except turns into return False.
DecUnlinkTemp(j) ==
    /\ jpc[j] = "dec_unlink_temp"
    /\ IF File(j).temp
       THEN Goto(j, "dec_run") /\ SetFile(j, "temp", FALSE)
       ELSE Ret(j, "fail") /\ UNCHANGED fs
    /\ UNCHANGED << config, runCtx, stageVars, coordVars, ids, tool_present, calls, acts >>

\* decrypt_video: subprocess.run of the decrypt tool.  The tool is a black
\* box: it exits 0 or not and has written its output file or not.
DecRun(j) ==
    /\ jpc[j] = "dec_run"
    /\ acts' = [acts EXCEPT ![j].tool = @ + 1]
    /\ \E rc0, wrote \in BOOLEAN :
          /\ SetFile(j, "temp", File(j).temp \/ wrote)
          /\ Goto(j, IF rc0 THEN "dec_move" ELSE "dec_cleanup")
    /\ UNCHANGED << config, runCtx, stageVars, coordVars, ids, tool_present, calls >>

\* decrypt_video, returncode != 0: unlink the temporary output if it
\* exists, return False.
DecCleanup(j) ==
    /\ jpc[j] = "dec_cleanup"
    /\ SetFile(j, "temp", FALSE)
    /\ Ret(j, "fail")
    /\ UNCHANGED << config, runCtx, stageVars, coordVars, ids, tool_present, calls, acts >>

\* Mutation of DecMove: the `return False` of the except clause around
\* shutil.move is missing, and decrypt_video goes on to delete the raw files.
DecMoveGoesOn(j) ==
    /\ jpc[j] = "dec_move"
    /\ \/ /\ File(j).temp
          /\ fs' = [fs EXCEPT ![Key(j)].temp = FALSE, ![Key(j)].final = "complete"]
       \/ UNCHANGED fs
    /\ Goto(j, "dec_del_video")
    /\ UNCHANGED << config, runCtx, stageVars, coordVars, ids, tool_present, calls, acts >>

\* decrypt_video: shutil.move(temp, final).  It raises when the temporary
\* output does not exist or the rename fails (return False); when rename
\* cannot be used (temp_dir and decrypted_dir on two file systems) it copies
\* to the final path, opened for writing, and may fail with the copy begun.
DecMove(j) ==
    /\ jpc[j] = "dec_move"
    /\ \/ /\ File(j).temp
          /\ fs' = [fs EXCEPT ![Key(j)].temp = FALSE, ![Key(j)].final = "complete"]
          /\ Goto(j, "dec_del_video")
       \/ /\ Ret(j, "fail")
          /\ UNCHANGED fs
       \/ /\ File(j).temp
          /\ SetFile(j, "final", "partial")
          /\ Ret(j, "fail")
    /\ UNCHANGED << config, runCtx, stageVars, coordVars, ids, tool_present, calls, acts >>

\* decrypt_video: `video_file.unlink()`.  When it raises, the inner except
\* logs a warning and the audio file is not looked at: return True.
DecDelVideo(j) ==
    /\ jpc[j] = "dec_del_video"
    /\ \/ /\ File(j).video # "absent"
          /\ SetFile(j, "video", "absent")
          /\ Goto(j, "dec_del_audio")
       \/ /\ Ret(j, "ok")
          /\ UNCHANGED fs
    /\ UNCHANGED << config, runCtx, stageVars, coordVars, ids, tool_present, calls, acts >>

\* decrypt_video: `if audio_file.exists(): audio_file.unlink()`, return True.
DecDelAudio(j) ==
    /\ jpc[j] = "dec_del_audio"
    /\ \/ SetFile(j, "audio", "absent")
       \/ UNCHANGED fs
    /\ Ret(j, "ok")
    /\ UNCHANGED << config, runCtx, stageVars, coordVars, ids, tool_present, calls, acts >>

\* nanairo download_video, steps 1 to 3: get_video_page, extract_video_title,
\* get_master_m3u8_url.  A missing page or URL returns False.
NResolve(j) ==
    /\ pipeline = "nanairo"
    /\ jpc[j] = "begin"
    /\ Enter(j, "Resolving")
    /\ \E ok \in BOOLEAN : IF ok THEN Goto(j, "n_chk_saved") ELSE Ret(j, "fail")
    /\ UNCHANGED << config, runCtx, stageVars, coordVars, ids, fs, tool_present, acts >>

\* Mutation of NCheckSaved: only <output_name>.mp4 is looked for.
NCheckSavedMp4Only(j) ==
    /\ jpc[j] = "n_chk_saved"
    /\ Enter(j, "Fetching")
    /\ IF ".mp4" \in File(j).saved THEN Ret(j, "ok") ELSE Goto(j, "n_chk_tool")
    /\ UNCHANGED << config, runCtx, stageVars, coordVars, ids, fs, tool_present, acts >>

\* download_with_n_m3u8dl: `for ext in ['.mp4', '.mkv', '.ts']:` a file
\* <output_name><ext> exists: return True.
NCheckSaved(j) ==
    /\ jpc[j] = "n_chk_saved"
    /\ Enter(j, "Fetching")
    /\ IF File(j).saved \cap KnownExts # {} THEN Ret(j, "ok") ELSE Goto(j, "n_chk_tool")
    /\ UNCHANGED << config, runCtx, stageVars, coordVars, ids, fs, tool_present, acts >>

\* download_with_n_m3u8dl: `if not self.n_m3u8dl_path.exists(): return False`
NCheckTool(j) ==
    /\ jpc[j] = "n_chk_tool"
    /\ IF tool_present THEN Goto(j, "n_run") ELSE Ret(j, "fail")
    /\ UNCHANGED << config, runCtx, stageVars, coordVars, ids, fs, tool_present, calls, acts >>

\* download_with_n_m3u8dl: subprocess.Popen and process.wait().  Popen
\* raises and the except clause returns False; or the external downloader
\* runs, a black box that exits 0 or not and has written <output_name>.mp4
\* (-M format=mp4), a temporary file, or nothing.
NRun(j) ==
    /\ jpc[j] = "n_run"
    /\ \/ /\ Ret(j, "fail")
          /\ UNCHANGED << fs, acts >>
       \/ /\ acts' = [acts EXCEPT ![j].tool = @ + 1]
          /\ \E rc0 \in BOOLEAN, wrote \in {{}, {".mp4"}, {".tmp"}} :
                /\ SetFile(j, "saved", File(j).saved \cup wrote)
                /\ Goto(j, IF rc0 THEN "n_rc_zero" ELSE "n_rc_nonzero")
    /\ UNCHANGED << config, runCtx, stageVars, coordVars, ids, tool_present, calls >>

\* download_with_n_m3u8dl: `if process.returncode != 0: return False`,
\* `return True`.
NReturn(j) ==
    /\ jpc[j] \in {"n_rc_zero", "n_rc_nonzero"}
    /\ Ret(j, IF jpc[j] = "n_rc_zero" THEN "ok" ELSE "fail")
    /\ UNCHANGED << config, runCtx, stageVars, coordVars, ids, fs, tool_present, calls, acts >>

NextJob ==
    \/ \E j \in DOMAIN jpc : Resolve(j)
    \/ \E j \in DOMAIN jpc : Parse(j)
    \/ \E j \in DOMAIN jpc : CheckDecrypted(j)
    \/ \E j \in DOMAIN jpc : CheckRaw(j)
    \/ \E j \in DOMAIN jpc : GetBegin(j)
    \/ \E j \in DOMAIN jpc : GetEnd(j)
    \/ \E j \in DOMAIN jpc : DecCheckFinal(j)
    \/ \E j \in DOMAIN jpc : DecCheckTool(j)
    \/ \E j \in DOMAIN jpc : DecCheckTemp(j)
    \/ \E j \in DOMAIN jpc : DecUnlinkTemp(j)
    \/ \E j \in DOMAIN jpc : DecRun(j)
    \/ \E j \in DOMAIN jpc : DecCleanup(j)
    \/ \E j \in DOMAIN jpc : DecMove(j)
    \/ \E j \in DOMAIN jpc : DecDelVideo(j)
    \/ \E j \in DOMAIN jpc : DecDelAudio(j)
    \/ \E j \in DOMAIN jpc : NResolve(j)
    \/ \E j \in DOMAIN jpc : NCheckSaved(j)
    \/ \E j \in DOMAIN jpc : NCheckTool(j)
    \/ \E j \in DOMAIN jpc : NRun(j)
    \/ \E j \in DOMAIN jpc : NReturn(j)

SpecJob == InitJob /\ [][NextJob]_vars

(***************************************************************************)
(* SpecFetch: download_file on its own, one call after another on one      *)
(* output_path, against one resource.  The bytes of the resource are       *)
(* 1, 2, ..., size; a byte 0 is a byte that is not the resource's.         *)
(***************************************************************************)

\* Largest resource, in bytes.
MaxSize == 3
\* Calls of download_file on the same path (a run and its resumptions).
MaxCalls == 2

\* No run and no job: the coordinator's and the jobs' variables stay put.
NoRun ==
    /\ past = << >>
    /\ ids_exists = TRUE
    /\ pipeline = "mgstage"
    /\ download_threads = 1
    /\ ids_file = << >>
    /\ failed_file = << >>
    /\ ids = << >>
    /\ runpc = "none"
    /\ pc = << >>
    /\ outcome = << >>
    /\ faulted = << >>
    /\ lock = 0
    /\ lines = << >>
    /\ wjob = << >>
    /\ success_count = 0
    /\ fail_count = 0
    /\ jpc = << >>
    /\ fs = << >>
    /\ tool_present = TRUE
    /\ calls = << >>
    /\ acts = << >>
    /\ jret = << >>

runVars == << config, runCtx, coordVars, ids, jobVars >>

\* Bytes a..b of the resource (none when b < a).
ResourceBytes(a, b) == [i \in 1..(b - a + 1) |-> a + i - 1]

\* What an earlier call, or anything else, left at output_path: nothing, or
\* a file of s bytes, the resource's as far as the resource goes.
FilesLeft(size) ==
    {[exists |-> FALSE, data |-> << >>]} \cup
    {[exists |-> TRUE, data |-> [i \in 1..s |-> IF i <= size THEN i ELSE 0]] :
        s \in 0..(MaxSize + 1)}

InitFetch ==
    /\ NoRun
    /\ server \in [size : 1..MaxSize, ranges : BOOLEAN]
    /\ disk \in FilesLeft(server.size)
    /\ dl = IdleDl
    /\ api = IdleApi
    /\ mpd = << >>
    /\ parsed = IdleParsed
    /\ page = IdlePage

\* download_file returns r.
FetchRet(d, r) == [d EXCEPT !.pc = "ret", !.ret = r]

\* download_file is called.
FetchCall ==
    /\ dl.pc \in {"idle", "ret"}
    /\ dl.ncalls < MaxCalls
    /\ dl' = [IdleDl EXCEPT !.pc = "head", !.before = disk, !.ncalls = dl.ncalls + 1]
    /\ UNCHANGED << runVars, page, api, server, disk, mpd, parsed >>

\* `response = download_session.head(url, timeout=30)` and
\* `total_size = int(response.headers.get('content-length', 0))`: the
\* request raises (the except clause returns False), or the response has a
\* Content-Length, or it has none.
FetchHead ==
    /\ dl.pc = "head"
    /\ \E r \in {"raised", "known", "unknown"} :
          dl' = IF r = "raised"
                THEN FetchRet([dl EXCEPT !.probe = r], "fail")
                ELSE [dl EXCEPT !.pc = "stat", !.probe = r,
                                !.total_size = IF r = "known" THEN server.size ELSE 0,
                                !.probed = IF r = "known" THEN server.size ELSE 0]
    /\ UNCHANGED << runVars, page, api, server, disk, mpd, parsed >>

\* Mutation of FetchStat: the test for a complete file is missing.
FetchStatNoShortcut ==
    /\ dl.pc = "stat"
    /\ dl' = [dl EXCEPT !.pc = "get",
                        !.downloaded_size = IF disk.exists THEN Len(disk.data) ELSE 0]
    /\ UNCHANGED << runVars, page, api, server, disk, mpd, parsed >>

\* `if output_path.exists(): downloaded_size = output_path.stat().st_size`,
\* `if downloaded_size >= total_size and total_size > 0: return True`.
FetchStat ==
    /\ dl.pc = "stat"
    /\ LET size == IF disk.exists THEN Len(disk.data) ELSE 0
           d == [dl EXCEPT !.downloaded_size = size]
       IN  dl' = IF disk.exists /\ size >= dl.total_size /\ dl.total_size > 0
                 THEN FetchRet(d, "ok")
                 ELSE [d EXCEPT !.pc = "get"]
    /\ UNCHANGED << runVars, page, api, server, disk, mpd, parsed >>

\* The response to the GET: 206 with the bytes from the offset when a Range
\* was sent and the server supports ranges (416 when the offset is not
\* inside the resource), 200 with the whole resource otherwise.
Response(range) ==
    IF range >= 0 /\ server.ranges
    THEN IF range < server.size
         THEN [status |-> 206, body |-> ResourceBytes(range + 1, server.size)]
         ELSE [status |-> 416, body |-> << >>]
    ELSE [status |-> 200, body |-> ResourceBytes(1, server.size)]

\* `if downloaded_size > 0: headers['Range'] = f'bytes={downloaded_size}-'`,
\* the GET (it raises, or the server answers with an error status, or as
\* Response says), raise_for_status, content_length, total_size and
\* `mode = 'ab' if downloaded_size > 0 else 'wb'`.
FetchGet ==
    /\ dl.pc = "get"
    /\ LET range == IF dl.downloaded_size > 0 THEN dl.downloaded_size ELSE -1
           d == [dl EXCEPT !.range = range, !.gets = dl.gets + 1]
       IN  \E r \in {"raised", "error_status", "answered"} :
              dl' = IF r = "raised" THEN FetchRet(d, "fail")
                    ELSE IF r = "error_status"
                    THEN FetchRet([d EXCEPT !.status = 500], "fail")
                    ELSE IF Response(range).status >= 400
                    THEN FetchRet([d EXCEPT !.status = Response(range).status], "fail")
                    ELSE [d EXCEPT
                            !.pc = "open",
                            !.status = Response(range).status,
                            !.body = Response(range).body,
                            !.content_length = Len(Response(range).body),
                            !.total_size =
                                IF dl.downloaded_size > 0
                                THEN dl.downloaded_size + Len(Response(range).body)
                                ELSE Len(Response(range).body),
                            !.mode = IF dl.downloaded_size > 0 THEN "ab" ELSE "wb"]
    /\ UNCHANGED << runVars, page, api, server, disk, mpd, parsed >>

\* Mutation of FetchOpen: the file is always opened with mode 'wb'.
FetchOpenTruncates ==
    /\ dl.pc = "open"
    /\ \/ /\ dl' = FetchRet(dl, "fail")
          /\ UNCHANGED disk
       \/ /\ dl' = [dl EXCEPT !.pc = "write"]
          /\ disk' = [exists |-> TRUE, data |-> << >>]
    /\ UNCHANGED << runVars, page, api, server, mpd, parsed >>

\* `with open(output_path, mode) as f`: it raises and the file is as it
\* was, or 'wb' creates or truncates the file and 'ab' creates or keeps it.
FetchOpen ==
    /\ dl.pc = "open"
    /\ \/ /\ dl' = FetchRet(dl, "fail")
          /\ UNCHANGED disk
       \/ /\ dl' = [dl EXCEPT !.pc = "write"]
          /\ disk' = [exists |-> TRUE,
                      data |-> IF dl.mode = "wb" THEN << >> ELSE disk.data]
    /\ UNCHANGED << runVars, page, api, server, mpd, parsed >>

\* The chunk loop: the next chunk is written at the end of the file, or
\* reading it or writing it raises (return False), or the body is at its end
\* (return True).
FetchWrite ==
    /\ dl.pc = "write"
    /\ IF dl.body = << >>
       THEN /\ dl' = FetchRet(dl, "ok")
            /\ UNCHANGED disk
       ELSE \/ /\ disk' = [disk EXCEPT !.data = Append(@, Head(dl.body))]
               /\ dl' = [dl EXCEPT !.body = Tail(@)]
            \/ /\ dl' = FetchRet(dl, "fail")
               /\ UNCHANGED disk
    /\ UNCHANGED << runVars, page, api, server, mpd, parsed >>

NextFetch ==
    \/ FetchCall
    \/ FetchHead
    \/ FetchStat
    \/ FetchGet
    \/ FetchOpen
    \/ FetchWrite

SpecFetch == InitFetch /\ [][NextFetch]_vars

(***************************************************************************)
(* SpecManifest: parse_manifest on its own.  The manifest document is the  *)
(* sequence of its BaseURL elements, in document order.                    *)
(***************************************************************************)

\* Most BaseURL elements in a manifest.
MaxEntries == 3

\* The bitrate tokens of the URLs, as the digits matched by (\d+).
BitrateTokens == {<< 6 >>, << 8 >>, << 0, 8 >>, << 1, 2 >>}

\* URLs as sequences of characters; a URL may hold spaces.
VideoUrls == {<< "x" >>, << "y" >>, << "x", " " >>}
AudioUrls == {<< "z", " " >>}

\* A BaseURL element: one the video pattern matches (URL and bitrate
\* token), one the audio pattern matches, or one neither matches.
Entries ==
    [kind : {"video"}, url : VideoUrls, bitrate : BitrateTokens] \cup
    [kind : {"audio"}, url : AudioUrls, bitrate : {<< >>}] \cup
    [kind : {"other"}, url : {<< "o" >>}, bitrate : {<< >>}]

\* int(x[1]) on a string of decimal digits.
RECURSIVE IntOf(_)
IntOf(digits) ==
    IF digits = << >> THEN 0
    ELSE 10 * IntOf(SubSeq(digits, 1, Len(digits) - 1)) + digits[Len(digits)]

\* url.replace(' ', '')
NoSpaces(url) == SelectSeq(url, LAMBDA c : c # " ")

\* Mutation of PyMax: a later element with an equal key replaces the best.
RECURSIVE PyMaxLast(_, _, _)
PyMaxLast(doc, i, best) ==
    IF i > Len(doc) THEN best
    ELSE IF /\ doc[i].kind = "video"
            /\ (best = 0 \/ IntOf(doc[i].bitrate) >= IntOf(doc[best].bitrate))
         THEN PyMaxLast(doc, i + 1, i)
         ELSE PyMaxLast(doc, i + 1, best)

\* max(video_matches, key=lambda x: int(x[1])): the elements are taken in
\* order and one replaces the best so far when its key is greater.  The
\* result is the position in the document, 0 when there is no video match.
RECURSIVE PyMax(_, _, _)
PyMax(doc, i, best) ==
    IF i > Len(doc) THEN best
    ELSE IF /\ doc[i].kind = "video"
            /\ (best = 0 \/ IntOf(doc[i].bitrate) > IntOf(doc[best].bitrate))
         THEN PyMax(doc, i + 1, i)
         ELSE PyMax(doc, i + 1, best)

\* re.search(audio_pattern, mpd_content): the first audio match, 0 for None.
FirstAudio(doc) ==
    IF \E i \in 1..Len(doc) : doc[i].kind = "audio"
    THEN CHOOSE i \in 1..Len(doc) :
            /\ doc[i].kind = "audio"
            /\ \A k \in 1..(i - 1) : doc[k].kind # "audio"
    ELSE 0

InitManifest ==
    /\ NoRun
    /\ server = [size |-> 1, ranges |-> TRUE]
    /\ disk = [exists |-> FALSE, data |-> << >>]
    /\ dl = IdleDl
    /\ api = IdleApi
    /\ mpd \in SeqsUpTo(Entries, MaxEntries)
    /\ parsed = IdleParsed
    /\ page = IdlePage

\* The GET of the manifest and raise_for_status: either raises, and the
\* except clause returns (None, None).
ManifestGet ==
    /\ parsed.pc = "idle"
    /\ \E ok \in BOOLEAN :
          parsed' = IF ok THEN [parsed EXCEPT !.pc = "select", !.fetched = TRUE]
                    ELSE [parsed EXCEPT !.pc = "ret"]
    /\ UNCHANGED << runVars, page, api, server, disk, dl, mpd >>

\* The two patterns, `if not video_matches: return None, None`, the
\* maximum, and the URLs returned with their spaces removed.
ManifestSelect ==
    /\ parsed.pc = "select"
    /\ LET best == PyMax(mpd, 1, 0)
           audio == FirstAudio(mpd)
       IN  parsed' = IF best = 0
                     THEN [parsed EXCEPT !.pc = "ret"]
                     ELSE [parsed EXCEPT
                             !.pc = "ret",
                             !.best = best,
                             !.video_url = NoSpaces(mpd[best].url),
                             !.audio_url = IF audio = 0 THEN << >>
                                           ELSE NoSpaces(mpd[audio].url)]
    /\ UNCHANGED << runVars, page, api, server, disk, dl, mpd >>

\* Mutation of AfterParse: the test of the URLs is missing.
AfterParseGoesOn ==
    /\ parsed.pc = "ret"
    /\ parsed' = [parsed EXCEPT !.pc = "download"]
    /\ UNCHANGED << runVars, page, api, server, disk, dl, mpd >>

\* download_video after parse_manifest:
\* `if not video_url or not audio_url: return False`, else it goes on to
\* the downloads.
AfterParse ==
    /\ parsed.pc = "ret"
    /\ parsed' = [parsed EXCEPT !.pc =
                    IF parsed.video_url = << >> \/ parsed.audio_url = << >>
                    THEN "job_failed" ELSE "download"]
    /\ UNCHANGED << runVars, page, api, server, disk, dl, mpd >>

NextManifest ==
    \/ ManifestGet
    \/ ManifestSelect
    \/ AfterParse

SpecManifest == InitManifest /\ [][NextManifest]_vars

(***************************************************************************)
(* SpecPlaylist: parse_master_m3u8 on its own.  The playlist is the        *)
(* sequence of its lines; the result is kept in `parsed`, with the line of *)
(* the selected variant in `best`.                                         *)
(***************************************************************************)

\* Most lines in a playlist.
MaxLines == 4

\* The lines of a playlist: #EXT-X-MEDIA lines with TYPE=AUDIO, a GROUP-ID
\* and a URI; #EXT-X-STREAM-INF lines with a BANDWIDTH and an AUDIO group
\* or without one; URL lines; other lines beginning with #; empty lines.
PlaylistLines ==
    {[kind |-> "audio", group |-> "g1", uri |-> << "a1" >>, bandwidth |-> << >>],
     [kind |-> "audio", group |-> "g1", uri |-> << "a2" >>, bandwidth |-> << >>],
     [kind |-> "audio", group |-> "g2", uri |-> << "a2" >>, bandwidth |-> << >>],
     [kind |-> "variant", group |-> "g1", uri |-> << >>, bandwidth |-> << 5 >>],
     [kind |-> "variant", group |-> "g2", uri |-> << >>, bandwidth |-> << 0, 5 >>],
     [kind |-> "variant", group |-> "none", uri |-> << >>, bandwidth |-> << 9 >>],
     [kind |-> "url", group |-> "none", uri |-> << "u1" >>, bandwidth |-> << >>],
     [kind |-> "url", group |-> "none", uri |-> << "u2" >>, bandwidth |-> << >>],
     [kind |-> "comment", group |-> "none", uri |-> << >>, bandwidth |-> << >>],
     [kind |-> "blank", group |-> "none", uri |-> << >>, bandwidth |-> << >>]}

\* The first loop: audio_tracks[group] = uri for every audio line among the
\* first n lines, a later line of a group replacing an earlier one.
RECURSIVE AudioTracks(_, _)
AudioTracks(doc, n) ==
    IF n = 0 THEN [g \in {} |-> << >>]
    ELSE LET t == AudioTracks(doc, n - 1)
         IN  IF doc[n].kind = "audio"
             THEN [g \in DOMAIN t \cup {doc[n].group} |->
                      IF g = doc[n].group THEN doc[n].uri ELSE t[g]]
             ELSE t

\* The second loop, from line i on: a #EXT-X-STREAM-INF line whose next
\* line exists, is not empty and does not begin with # gives a stream, with
\* audio_tracks.get(audio_group, '') as its audio URL.
RECURSIVE Streams(_, _, _)
Streams(doc, tracks, i) ==
    IF i > Len(doc) THEN << >>
    ELSE IF /\ doc[i].kind = "variant"
            /\ i + 1 <= Len(doc)
            /\ doc[i + 1].kind = "url"
         THEN << [bandwidth |-> IntOf(doc[i].bandwidth),
                  video_url |-> doc[i + 1].uri,
                  audio_url |-> IF doc[i].group # "none" /\ doc[i].group \in DOMAIN tracks
                                THEN tracks[doc[i].group] ELSE << >>,
                  line |-> i] >> \o Streams(doc, tracks, i + 1)
         ELSE Streams(doc, tracks, i + 1)

\* Mutation of InsertDesc: a stream goes before the streams of its bandwidth.
RECURSIVE InsertDescUnstable(_, _)
InsertDescUnstable(x, sorted) ==
    IF sorted = << >> THEN << x >>
    ELSE IF Head(sorted).bandwidth > x.bandwidth
         THEN << Head(sorted) >> \o InsertDescUnstable(x, Tail(sorted))
         ELSE << x >> \o sorted

\* A stream put into a list sorted by bandwidth, highest first, behind the
\* streams of its own bandwidth.
RECURSIVE InsertDesc(_, _)
InsertDesc(x, sorted) ==
    IF sorted = << >> THEN << x >>
    ELSE IF Head(sorted).bandwidth >= x.bandwidth
         THEN << Head(sorted) >> \o InsertDesc(x, Tail(sorted))
         ELSE << x >> \o sorted

\* streams.sort(key=lambda x: x.bandwidth, reverse=True): the sort is
\* stable, streams of one bandwidth keep their order.
RECURSIVE SortDesc(_)
SortDesc(streams) ==
    IF streams = << >> THEN << >>
    ELSE InsertDesc(streams[Len(streams)],
                    SortDesc(SubSeq(streams, 1, Len(streams) - 1)))

InitPlaylist ==
    /\ NoRun
    /\ server = [size |-> 1, ranges |-> TRUE]
    /\ disk = [exists |-> FALSE, data |-> << >>]
    /\ dl = IdleDl
    /\ api = IdleApi
    /\ mpd \in SeqsUpTo(PlaylistLines, MaxLines)
    /\ parsed = IdleParsed
    /\ page = IdlePage

\* The GET of the playlist and raise_for_status: either raises, and the
\* except clause returns None.
PlaylistGet ==
    /\ parsed.pc = "idle"
    /\ \E ok \in BOOLEAN :
          parsed' = IF ok THEN [parsed EXCEPT !.pc = "select", !.fetched = TRUE]
                    ELSE [parsed EXCEPT !.pc = "ret"]
    /\ UNCHANGED << runVars, page, api, server, disk, dl, mpd >>

\* The two loops, `if not streams: return None`, the sort and streams[0].
PlaylistParse ==
    /\ parsed.pc = "select"
    /\ LET streams == Streams(mpd, AudioTracks(mpd, Len(mpd)), 1)
           best_stream == SortDesc(streams)[1]
       IN  parsed' = IF streams = << >>
                     THEN [parsed EXCEPT !.pc = "ret"]
                     ELSE [parsed EXCEPT !.pc = "ret",
                                         !.best = best_stream.line,
                                         !.video_url = best_stream.video_url,
                                         !.audio_url = best_stream.audio_url]
    /\ UNCHANGED << runVars, page, api, server, disk, dl, mpd >>

NextPlaylist ==
    \/ PlaylistGet
    \/ PlaylistParse

SpecPlaylist == InitPlaylist /\ [][NextPlaylist]_vars

(***************************************************************************)
(* SpecResolve: search_video, the tests download_video makes on its        *)
(* result, and get_play_info, called for one job after another.            *)
(***************************************************************************)

\* Most elements in the contents of a search response.
MaxContents == 3
\* Calls of get_play_info looked at together.
MaxLookups == 2

\* The pid of an element of contents; "" for none.
Pids == {"", "p", "q"}

InitResolve ==
    /\ NoRun
    /\ server = [size |-> 1, ranges |-> TRUE]
    /\ disk = [exists |-> FALSE, data |-> << >>]
    /\ dl = IdleDl
    /\ mpd = << >>
    /\ parsed = IdleParsed
    /\ page = IdlePage
    /\ \E h \in 0..MaxContents, c \in SeqsUpTo(Pids, MaxContents) :
          api = [IdleApi EXCEPT !.hits = h, !.contents = c]

\* Mutation of SearchResult: the first element is returned whatever its pid.
SearchResultFirst(hits, contents) ==
    IF hits > 0 /\ contents # << >> THEN 1 ELSE 0

\* search_video on an answered request: `if data.get('hits', 0) > 0 and
\* data.get('contents')`, the loop returning the first content with a pid,
\* the first content after the loop, None otherwise.
SearchResult(hits, contents) ==
    IF hits > 0 /\ contents # << >>
    THEN IF \E i \in 1..Len(contents) : contents[i] # ""
         THEN CHOOSE i \in 1..Len(contents) :
                 /\ contents[i] # ""
                 /\ \A k \in 1..(i - 1) : contents[k] = ""
         ELSE 1
    ELSE 0

\* search_video: the request raises (or raise_for_status, or the JSON
\* decoding) and the except clause returns None, or the response is read.
SearchVideo ==
    /\ api.pc = "idle"
    /\ \E ok \in BOOLEAN :
          api' = IF ok
                 THEN [api EXCEPT !.pc = "searched", !.answered = TRUE,
                                  !.found = SearchResult(api.hits, api.contents)]
                 ELSE [api EXCEPT !.pc = "searched"]
    /\ UNCHANGED << runVars, page, server, disk, dl, mpd, parsed >>

\* download_video: `if not search_result: return False`,
\* `pid = search_result.get('pid')`, `if not pid: return False`.
AfterSearch ==
    /\ api.pc = "searched"
    /\ api' = IF api.found = 0 \/ api.contents[api.found] = ""
              THEN [api EXCEPT !.pc = "job_failed"]
              ELSE [api EXCEPT !.pc = "play_info", !.pid = api.contents[api.found]]
    /\ UNCHANGED << runVars, page, server, disk, dl, mpd, parsed >>

\* get_play_info: the request raises (transport error, timeout,
\* raise_for_status on a status that is not 2xx) and the except clause
\* returns None; or the response has no manifest_url and None is returned;
\* or it has one and the response data is returned.
GetPlayInfo ==
    /\ api.pc = "play_info"
    /\ Len(api.detail) < MaxLookups
    /\ \E what \in {"transient", "no_manifest", "manifest"} :
          api' = [api EXCEPT !.detail =
                     Append(@, [what |-> what,
                                value |-> IF what = "manifest" THEN "data" ELSE "None"])]
    /\ UNCHANGED << runVars, page, server, disk, dl, mpd, parsed >>

NextResolve ==
    \/ SearchVideo
    \/ AfterSearch
    \/ GetPlayInfo

SpecResolve == InitResolve /\ [][NextResolve]_vars

(***************************************************************************)
(* SpecTitle: extract_video_title and _sanitize_filename of the nanairo    *)
(* pipeline on one string.  A string is a sequence of characters.          *)
(***************************************************************************)

\* Longest run of characters around the filler of an input string.
MaxEdge == 2

\* _sanitize_filename: `if len(filename) > 200`.
NameLimit == 200

\* The characters the input strings are made of.
EdgeChars == {"a", " ", ".", "|", "<", "-"}

\* The site names of the two re.sub patterns of extract_video_title; the
\* first is looked for with re.IGNORECASE.
SiteLatin == << "n", "a", "n", "a", "i", "r", "o" >>
SiteKana == << "ナ", "ナ", "イ", "ロ" >>

\* What an input string may end with: nothing, or a site name.
Tails == {<< >>, << "N", "a", "n", "a", "i", "r", "o" >>, SiteKana}

\* n times the character "a".
Filler(n) == [i \in 1..n |-> "a"]

\* The input strings: a filler of no character or of one less than the
\* limit, with at most MaxEdge characters in front of and behind it taken
\* together, and a tail.
Texts ==
    {e[1] \o Filler(n) \o e[2] \o t :
        e \in {x \in SeqsUpTo(EdgeChars, MaxEdge) \X SeqsUpTo(EdgeChars, MaxEdge) :
                  Len(x[1]) + Len(x[2]) <= MaxEdge},
        n \in {0, NameLimit - 1}, t \in Tails}

\* invalid_chars of _sanitize_filename.
InvalidChars == {"<", ">", ":", "\"", "/", "\\", "|", "?", "*"}

\* The loop `filename = filename.replace(char, '_')` over invalid_chars.
ReplaceInvalid(s) == [i \in 1..Len(s) |-> IF s[i] \in InvalidChars THEN "_" ELSE s[i]]

\* str.strip(chars): the first and the last position that hold a character
\* outside chars bound what is kept.
PyStrip(s, chars) ==
    LET keep == {i \in 1..Len(s) : s[i] \notin chars}
    IN  IF keep = {} THEN << >>
        ELSE SubSeq(s, CHOOSE i \in keep : \A k \in keep : i <= k,
                       CHOOSE i \in keep : \A k \in keep : k <= i)

\* _sanitize_filename: replace, strip(' .'), then cut at the limit.
SanitizeFilename(filename) ==
    LET stripped == PyStrip(ReplaceInvalid(filename), {" ", "."})
    IN  IF Len(stripped) > NameLimit THEN SubSeq(stripped, 1, NameLimit) ELSE stripped

\* str.lower() on the characters of the model.
LowerChar(c) == IF c = "N" THEN "n" ELSE c

\* The first position at or after i that holds no white space.
RECURSIVE SkipSpaces(_, _)
SkipSpaces(s, i) == IF i <= Len(s) /\ s[i] = " " THEN SkipSpaces(s, i + 1) ELSE i

\* The pattern \s*[-|]\s*<name>.*$ matches s from position i on.
SuffixAt(s, i, name, ignorecase) ==
    LET j == SkipSpaces(s, i)
        k == SkipSpaces(s, j + 1)
    IN  /\ j <= Len(s)
        /\ s[j] \in {"-", "|"}
        /\ k + Len(name) - 1 <= Len(s)
        /\ \A d \in 1..Len(name) :
              (IF ignorecase THEN LowerChar(s[k + d - 1]) ELSE s[k + d - 1]) = name[d]

\* re.sub(r'\s*[-|]\s*<name>.*$', '', s): the leftmost match runs to the end
\* of the string and is removed.
CutSite(s, name, ignorecase) ==
    LET at == {i \in 1..Len(s) : SuffixAt(s, i, name, ignorecase)}
    IN  IF at = {} THEN s
        ELSE SubSeq(s, 1, (CHOOSE i \in at : \A k \in at : i <= k) - 1)

\* re.search(r'<title>([^<]+)</title>', html) on a page that holds the text
\* between its title tags, or has no title tag: group 1, << >> for no match.
TitleMatch(tagged, text) ==
    IF tagged /\ text # << >> /\ \A i \in 1..Len(text) : text[i] # "<" THEN text ELSE << >>

\* extract_video_title.
ExtractTitle(tagged, text, video_id) ==
    LET group == TitleMatch(tagged, text)
        title == CutSite(CutSite(PyStrip(group, {" "}), SiteLatin, TRUE), SiteKana, FALSE)
    IN  IF group # << >> /\ title # << >> THEN SanitizeFilename(title) ELSE video_id

InitTitle ==
    /\ NoRun
    /\ server = [size |-> 1, ranges |-> TRUE]
    /\ disk = [exists |-> FALSE, data |-> << >>]
    /\ dl = IdleDl
    /\ api = IdleApi
    /\ mpd = << >>
    /\ parsed = IdleParsed
    /\ page \in {[IdlePage EXCEPT !.text = t] : t \in Texts}

\* _sanitize_filename(text) is called.
Sanitize ==
    /\ page.pc = "idle"
    /\ page' = [page EXCEPT !.pc = "sanitized", !.ret = SanitizeFilename(page.text)]
    /\ UNCHANGED << runVars, server, disk, dl, mpd, parsed, api >>

\* extract_video_title(html, video_id) is called on a page whose title tag,
\* if it has one, holds the text.
Extract ==
    /\ page.pc = "idle"
    /\ \E tagged \in BOOLEAN, v \in VidNames :
          page' = [page EXCEPT !.pc = "extracted", !.tagged = tagged, !.video_id = << v >>,
                               !.ret = ExtractTitle(tagged, page.text, << v >>)]
    /\ UNCHANGED << runVars, server, disk, dl, mpd, parsed, api >>

NextTitle ==
    \/ Sanitize
    \/ Extract

SpecTitle == InitTitle /\ [][NextTitle]_vars

(***************************************************************************)
(* The coordinator: properties of Spec.                                    *)
(***************************************************************************)

\* The jobs whose process_id has returned True / False.
OkJobs   == {j \in Jobs : outcome[j] = "ok"}
FailJobs == {j \in Jobs : outcome[j] \in {"fail", "exc"}}

\* The identifiers whose job has reported success.
Succeeded == {ids[j] : j \in OkJobs}

\* The run has read the work list and no thread is inside `with failed_lock`.
Observable ==
    /\ pipeline = "mgstage"
    /\ runpc \in {"running", "done"}
    /\ lock = 0

C2_FailedExact ==
    runpc = "done" =>
        /\ Range(failed_file) = {ids[j] : j \in FailJobs}
        /\ \A m, n \in 1..Len(failed_file) : failed_file[m] = failed_file[n] => m = n

\* The ledgers a run leaves when it processes the list one job after the
\* other in list order (pool size 1) and the jobs end as `out` says.
RECURSIVE SeqPending(_, _, _, _)
SeqPending(p, idl, out, k) ==
    IF k = 0 THEN idl
    ELSE LET before == SeqPending(p, idl, out, k - 1)
         IN  IF out[k] = "ok" /\ p = "mgstage"
             THEN Remaining(before, idl[k])
             ELSE before

RECURSIVE SeqFailed(_, _, _)
SeqFailed(idl, out, k) ==
    IF k = 0 THEN << >>
    ELSE LET before == SeqFailed(idl, out, k - 1)
         IN  IF out[k] = "ok" THEN before ELSE AppendLine(before, idl[k])

\* C3: whatever the pool size and the interleaving, a run ends with the
\* sets of identifiers in the two ledgers that the one-job-at-a-time run
\* over the same list with the same job outcomes ends with.
C3_PoolSizeIndependent ==
    runpc = "done" =>
        /\ Range(ids_file) = Range(SeqPending(pipeline, ids, outcome, Len(ids)))
        /\ Range(failed_file) = Range(SeqFailed(ids, outcome, Len(ids)))

\* A finished run of more than one thread that changed both ledgers.
C3_Witness ==
    /\ runpc = "done"
    /\ pipeline = "mgstage"
    /\ download_threads > 1
    /\ OkJobs # {}
    /\ FailJobs # {}

\* The jobs that are inside a ledger update.
InLedgerUpdate == {j \in Jobs : pc[j] \in {"appF", "appX", "writeP"}}

\* C4: at most one worker is inside a ledger update (the rewrite of the
\* pending file or an append to the failed file), and the lines a rewrite
\* is computed from are the lines the file holds.
C4_LedgerMutex ==
    /\ Cardinality(InLedgerUpdate) <= 1
    /\ \A j \in Jobs : pc[j] = "writeP" => lines[j] = ids_file

\* One worker is inside a pending-file rewrite while another waits for the lock.
C4_Witness ==
    \E j, k \in Jobs :
        /\ pc[j] = "writeP"
        /\ pc[k] \in {"wantP", "wantF", "wantX"}

\* C5: a fault raised while a job is processed, in a stage or while its
\* outcome is written to a ledger, never ends the run; the job is counted
\* as failed and its identifier is in the failed ledger, and every
\* identifier of the list is processed.
C5_FaultIsolation ==
    /\ runpc # "crashed"
    /\ runpc = "done" =>
          \A j \in Jobs :
              /\ pc[j] = "collected"
              /\ faulted[j] => (j \in FailJobs /\ ids[j] \in Range(failed_file))

\* A finished job has its outcome in the ledgers: its identifier is in the
\* failed ledger when it failed, and (mgstage) no line of the pending file
\* matches it when it succeeded.
Recorded(j) ==
    IF outcome[j] = "ok"
    THEN pipeline = "mgstage" => \A l \in Range(ids_file) : Lower(l) # Lower(ids[j])
    ELSE ids[j] \in Range(failed_file)

InFlight == {j \in Jobs : pc[j] \notin {"queued", "finished", "collected"}}

\* C7: never more jobs in flight than download_threads, every job in flight
\* is run by exactly one thread, and a thread leaves its job only when
\* process_id has returned for it.
C7_BoundedPool ==
    /\ [](/\ Cardinality(InFlight) <= download_threads
          /\ \A j \in InFlight : Cardinality({w \in DOMAIN wjob : wjob[w] = j}) = 1)
    /\ [][\A w \in DOMAIN wjob :
            (wjob[w] # 0 /\ wjob'[w] # wjob[w]) => pc'[wjob[w]] = "finished"]_vars

\* All threads are busy and an identifier waits in the queue.
C7_Witness ==
    /\ runpc = "running"
    /\ Cardinality(InFlight) = download_threads
    /\ \E j \in Jobs : pc[j] = "queued"

(***************************************************************************)
(* download_video and decrypt_video: properties of SpecJob.                *)
(***************************************************************************)

\* C9: the stages a job has entered are a prefix of the chain Resolving,
\* Parsing, Fetching, Finalizing of its pipeline (so they are entered in
\* that order, each once, each after the stages before it); a job one of
\* whose stages failed has returned and enters no further stage, starts no
\* transfer and runs no tool; a transfer is begun only in Fetching, at most
\* once per file, and the external tool is run only in the last stage, once.
C9_StageOrder ==
    /\ [](\A j \in DOMAIN calls :
            /\ Len(calls[j]) <= Len(Chain(pipeline))
            /\ \A n \in 1..Len(calls[j]) : calls[j][n] = Chain(pipeline)[n]
            /\ jret[j] = "fail" => jpc[j] = "ret"
            /\ acts[j].get > 0 => "Fetching" \in Range(calls[j])
            /\ acts[j].tool > 0 =>
                  Chain(pipeline)[Len(Chain(pipeline))] \in Range(calls[j])
            /\ acts[j].get <= 2
            /\ acts[j].tool <= 1)
    /\ [][\A j \in DOMAIN calls :
            jret[j] # "none" => (calls'[j] = calls[j] /\ acts'[j] = acts[j])]_vars

\* One job failed in Parsing, with no transfer and no tool run, and another
\* went through all four stages and ran the decrypt tool.
C9_Witness ==
    \E j, k \in DOMAIN calls :
        /\ jret[j] = "fail"
        /\ calls[j] = << "Resolving", "Parsing" >>
        /\ acts[j] = [get |-> 0, tool |-> 0]
        /\ jret[k] = "ok"
        /\ calls[k] = << "Resolving", "Parsing", "Fetching", "Finalizing" >>
        /\ acts[k].tool = 1

\* C10: when the decrypt tool has exited nonzero and decrypt_video returns,
\* it returns False, the temporary output does not exist, the final
\* artifact does not exist, and the raw video and audio files exist.
C10_ToolFailed ==
    [][\A j \in DOMAIN jpc :
          (jpc[j] = "dec_cleanup" /\ jpc'[j] = "ret") =>
              /\ jret'[j] = "fail"
              /\ ~fs'[Key(j)].temp
              /\ fs'[Key(j)].final = "absent"
              /\ fs'[Key(j)].video # "absent"
              /\ fs'[Key(j)].audio # "absent"]_vars

\* C11: when the decrypt tool has exited 0 and the move of the temporary
\* output to the final path fails, decrypt_video returns False, the final
\* path is as it was before the move (absent, or its previous content), and
\* the raw video and audio files are as they were.
C11_MoveFailed ==
    [][\A j \in DOMAIN jpc :
          (jpc[j] = "dec_move" /\ jpc'[j] = "ret") =>
              /\ jret'[j] = "fail"
              /\ fs'[Key(j)].final = fs[Key(j)].final
              /\ fs'[Key(j)].video = fs[Key(j)].video
              /\ fs'[Key(j)].audio = fs[Key(j)].audio]_vars

\* C12: a step that deletes a raw file is a step of decrypt_video after its
\* move, taken with the final artifact present before and after it; a move
\* that succeeds puts the final artifact in place and goes on to the
\* deletion; and decrypt_video returns True from the deletion, whether the
\* files were deleted or not.
C12_DeleteAfterMove ==
    [][\A j \in DOMAIN jpc :
          /\ (jpc[j] = "dec_move" /\ jpc'[j] # "ret" /\ jpc'[j] # "dec_move") =>
                 /\ jpc'[j] = "dec_del_video"
                 /\ fs'[Key(j)].final = "complete"
                 /\ fs'[Key(j)].video = fs[Key(j)].video
                 /\ fs'[Key(j)].audio = fs[Key(j)].audio
          /\ (jpc[j] \in {"dec_del_video", "dec_del_audio"} /\ jpc'[j] = "ret") =>
                 jret'[j] = "ok"
          /\ \A f \in {"video", "audio"} :
                 (fs[Key(j)][f] # "absent" /\ fs'[Key(j)][f] = "absent") =>
                     /\ \E k \in DOMAIN jpc :
                           /\ jpc[k] \in {"dec_del_video", "dec_del_audio"}
                           /\ jpc'[k] # jpc[k]
                     /\ fs[Key(j)].final # "absent"
                     /\ fs'[Key(j)].final # "absent"]_vars

\* decrypt_video has returned True after running the tool, with the final
\* artifact in place and both raw files deleted.
C12_Witness ==
    \E j \in DOMAIN jpc :
        /\ pipeline = "mgstage"
        /\ jret[j] = "ok"
        /\ acts[j].tool = 1
        /\ File(j).final = "complete"
        /\ File(j).video = "absent"
        /\ File(j).audio = "absent"

\* C13: when the final artifact exists at the test that opens
\* decrypt_video (and likewise at the test of download_video before the
\* downloads), the job returns True, the tool is not run, and the final
\* artifact, the temporary output and the raw files are unchanged.
C13_AlreadyFinal ==
    [][\A j \in DOMAIN jpc :
          (/\ jpc[j] \in {"dec_chk_final", "chk_final"}
           /\ jpc'[j] # jpc[j]
           /\ fs[Key(j)].final # "absent") =>
              /\ jpc'[j] = "ret"
              /\ jret'[j] = "ok"
              /\ acts'[j] = acts[j]
              /\ fs' = fs]_vars

\* decrypt_video was called, found the final artifact and returned True
\* without a run of the tool.
C13_Witness ==
    \E j \in DOMAIN jpc :
        /\ jret[j] = "ok"
        /\ calls[j] = << "Resolving", "Parsing", "Fetching", "Finalizing" >>
        /\ acts[j].tool = 0
        /\ File(j).final # "absent"

(***************************************************************************)
(* download_file: properties of SpecFetch.                                 *)
(***************************************************************************)

\* The size of the file at output_path when download_file was called.
SizeBefore == IF dl.before.exists THEN Len(dl.before.data) ELSE 0

IsPrefix(a, b) == Len(a) <= Len(b) /\ \A i \in 1..Len(a) : a[i] = b[i]

\* C14: when the file exists with size S, the probe gave a total size T > 0
\* and S >= T, download_file returns True from its size test: no GET is
\* sent and the file is as it was.
C14_AlreadyComplete ==
    (/\ dl.probe = "known"
     /\ dl.probed > 0
     /\ dl.before.exists
     /\ SizeBefore >= dl.probed) =>
        /\ dl.gets = 0
        /\ disk = dl.before
        /\ dl.pc = "stat" \/ (dl.pc = "ret" /\ dl.ret = "ok")

\* download_file has returned True for a file larger than the probed size.
C14_Witness ==
    /\ dl.pc = "ret"
    /\ dl.ret = "ok"
    /\ dl.probe = "known"
    /\ SizeBefore > dl.probed
    /\ dl.gets = 0
    /\ disk = dl.before

\* C15: when download_file was called with a partial file of size S,
\* 0 < S < T for the resource's size T, and has returned True, it sent
\* Range: bytes=S-, the file is the old bytes followed by the bytes
\* received, and its size is T.
C15_ResumeCompletes ==
    (/\ dl.pc = "ret"
     /\ dl.ret = "ok"
     /\ dl.before.exists
     /\ 0 < SizeBefore
     /\ SizeBefore < server.size) =>
        /\ dl.range = SizeBefore
        /\ IsPrefix(dl.before.data, disk.data)
        /\ Len(disk.data) = server.size

\* C16: when a Range was sent, the server answered 200 with the whole
\* resource and download_file has returned True, the file holds exactly the
\* bytes of the resource.
C16_FullBodyReplaces ==
    (/\ dl.pc = "ret"
     /\ dl.ret = "ok"
     /\ dl.range >= 0
     /\ dl.status = 200) =>
        disk.data = ResourceBytes(1, server.size)

\* C17: a Range header is sent exactly when the file exists with a size S,
\* 0 < S < T, for a probed total size T; the file is opened with mode 'ab'
\* only in that case and with mode 'wb' in every other case of a transfer.
C17_RangeOnlyWhenPartial ==
    LET partial == /\ dl.before.exists
                   /\ dl.probe = "known"
                   /\ 0 < SizeBefore
                   /\ SizeBefore < dl.probed
    IN  dl.gets > 0 =>
            /\ dl.range >= 0 <=> partial
            /\ dl.mode = "ab" => partial
            /\ dl.mode = "wb" => ~partial

\* C18: a call whose HEAD request failed does not return False without
\* having sent the GET.
C18_ProbeFailureTolerated ==
    dl.probe = "raised" => ~(dl.pc = "ret" /\ dl.ret = "fail" /\ dl.gets = 0)

\* C19: no step of download_file deletes the file; the step at which the
\* call fails leaves the file as it is; and when download_file has returned
\* False the file that existed at the call exists, begins with the bytes it
\* had at the call and so is not smaller.
C19_FailedKeepsFile ==
    /\ [](dl.pc = "ret" /\ dl.ret = "fail" =>
            /\ dl.before.exists => disk.exists
            /\ IsPrefix(dl.before.data, disk.data)
            /\ Len(disk.data) >= SizeBefore)
    /\ [][/\ disk.exists => disk'.exists
          /\ (dl.pc # "ret" /\ dl'.pc = "ret" /\ dl'.ret = "fail") => disk' = disk]_vars

\* download_file has returned False after it appended to a partial file.
C19_Witness ==
    /\ dl.pc = "ret"
    /\ dl.ret = "fail"
    /\ dl.mode = "ab"
    /\ 0 < SizeBefore
    /\ Len(disk.data) > SizeBefore

(***************************************************************************)
(* parse_manifest: properties of SpecManifest.                             *)
(***************************************************************************)

\* The positions of the video entries of the manifest.
VideoEntries == {i \in 1..Len(mpd) : mpd[i].kind = "video"}

\* C20: when parse_manifest has read a manifest with at least one video
\* entry and returned, the video URL it returns is that of an entry whose
\* bitrate, as a number, no video entry exceeds, and every video entry
\* before it in the document has a smaller bitrate.
C20_MaxBitrateFirst ==
    (parsed.pc = "ret" /\ parsed.fetched /\ VideoEntries # {}) =>
        /\ parsed.best \in VideoEntries
        /\ parsed.video_url = NoSpaces(mpd[parsed.best].url)
        /\ \A i \in VideoEntries :
              /\ IntOf(mpd[i].bitrate) <= IntOf(mpd[parsed.best].bitrate)
              /\ i < parsed.best =>
                    IntOf(mpd[i].bitrate) < IntOf(mpd[parsed.best].bitrate)

\* parse_manifest has returned the first of two entries of the maximal
\* bitrate 8, written 8 and 08 and with different URLs, which is not the
\* first video entry of the document.
C20_Witness ==
    /\ parsed.pc = "ret"
    /\ parsed.best > 0
    /\ \E i \in VideoEntries :
          /\ i > parsed.best
          /\ mpd[i].bitrate # mpd[parsed.best].bitrate
          /\ IntOf(mpd[i].bitrate) = IntOf(mpd[parsed.best].bitrate)
          /\ mpd[i].url # mpd[parsed.best].url
    /\ \E i \in VideoEntries : i < parsed.best

\* C21: when the manifest read has no video entry, parse_manifest returns
\* no video URL (and no audio URL), whatever audio entries the manifest has,
\* and download_video returns False instead of going on to the downloads.
C21_NoVideoFails ==
    (parsed.fetched /\ VideoEntries = {} /\ parsed.pc \in {"ret", "job_failed", "download"}) =>
        /\ parsed.video_url = << >>
        /\ parsed.audio_url = << >>
        /\ parsed.pc # "download"

\* download_video has returned False for a manifest with an audio entry and
\* no video entry.
C21_Witness ==
    /\ parsed.pc = "job_failed"
    /\ parsed.fetched
    /\ VideoEntries = {}
    /\ FirstAudio(mpd) > 0

\* C22: when the manifest read has a video entry and no audio entry,
\* parse_manifest returns the video URL and no audio URL, and download_video
\* goes on to the downloads.
C22_AudioOptional ==
    (/\ parsed.fetched
     /\ VideoEntries # {}
     /\ FirstAudio(mpd) = 0
     /\ parsed.pc \in {"job_failed", "download"}) =>
        /\ parsed.video_url # << >>
        /\ parsed.audio_url = << >>
        /\ parsed.pc = "download"

(***************************************************************************)
(* parse_master_m3u8: properties of SpecPlaylist.                          *)
(***************************************************************************)

\* The variant declarations that are followed by a URL line.
Variants ==
    {i \in 1..(Len(mpd) - 1) : mpd[i].kind = "variant" /\ mpd[i + 1].kind = "url"}

\* The URIs the playlist declares, on any of its lines, for audio group g.
DeclaredAudio(g) ==
    {mpd[i].uri : i \in {k \in 1..Len(mpd) : mpd[k].kind = "audio" /\ mpd[k].group = g}}

Preferred ==
    IF api.contents = << >> THEN 0
    ELSE IF \E i \in 1..Len(api.contents) : api.contents[i] # ""
         THEN CHOOSE i \in 1..Len(api.contents) :
                 /\ api.contents[i] # ""
                 /\ \A k \in 1..(i - 1) : api.contents[k] = ""
         ELSE 1

\* C24 as stated: an answered search returns the first candidate with a
\* non-empty pid, the first candidate when none has one, and nothing when
\* the collection is empty.
C24_SelectFirstWithPid ==
    api.answered => api.found = Preferred

\* C24 amended: an answered search whose hit count is positive returns the
\* first candidate with a non-empty pid, the first candidate when none has
\* one; it returns nothing when the hit count is not positive or the
\* collection is empty.
C24_SelectWhenHits ==
    api.answered => api.found = IF api.hits > 0 THEN Preferred ELSE 0

\* An answered search with a positive hit count has returned the second
\* candidate, the first having no pid.
C24_Witness ==
    /\ api.answered
    /\ api.hits > 0
    /\ Len(api.contents) >= 2
    /\ api.contents[1] = ""
    /\ api.found = 2

\* C25: of two calls of get_play_info, one on a response without a
\* manifest reference and one that met a transport error, a timeout or a
\* status that is not 2xx, the values returned are different.
C25_FailureKindsDistinct ==
    \A m, n \in 1..Len(api.detail) :
        (api.detail[m].what = "no_manifest" /\ api.detail[n].what = "transient") =>
            api.detail[m].value # api.detail[n].value

(***************************************************************************)
(* Runs on the same files: properties of SpecRerun and Spec.               *)
(***************************************************************************)

C28_EmptyRunChangesNothing ==
    /\ [](runpc = "returned" =>
            /\ ids = << >>
            /\ pc = << >>
            /\ success_count = 0
            /\ fail_count = 0)
    /\ [][/\ (runpc = "start" /\ (~ids_exists \/ Identifiers(pipeline, ids_file) = << >>)) =>
                /\ runpc' = "returned"
                /\ ids_file' = ids_file
                /\ failed_file' = failed_file
                /\ ids_exists' = ids_exists
          /\ runpc = "returned" => UNCHANGED vars]_vars

\* A run of the nanairo pipeline on a file whose only line is no number has
\* returned and the failed file holds what it held.
C28_Witness ==
    /\ runpc = "returned"
    /\ ids_exists
    /\ ids_file = << NonDigitLine >>
    /\ failed_file = << StaleLine >>

\* C29: in the nanairo pipeline run from a work-list file, when the run has
\* ended the file holds exactly the identifiers whose job has not succeeded.
C29_NumericPendingExact ==
    (pipeline = "nanairo" /\ runpc = "done") =>
        Range(ids_file) = Range(ids) \ Succeeded

(***************************************************************************)
(* download_with_n_m3u8dl and the decrypt tool: properties of SpecJob.     *)
(***************************************************************************)

\* C27: in the nanairo pipeline, when a file <output_name>.mp4, .mkv or .ts
\* exists at the test, download_with_n_m3u8dl returns True with no run of
\* the tool and no file changed; the tool is started only by a job that
\* found no such file and found the tool; a job that found no such file
\* returns False when the tool is missing or cannot be started, and
\* otherwise True when the tool has exited 0 and False when it has not.
C27_ExternalDownloader ==
    [][pipeline = "nanairo" =>
         \A j \in DOMAIN jpc :
            /\ (jpc[j] = "n_chk_saved" /\ jpc'[j] # jpc[j]) =>
                  IF fs[Key(j)].saved \cap {".mp4", ".mkv", ".ts"} # {}
                  THEN /\ jpc'[j] = "ret"
                       /\ jret'[j] = "ok"
                       /\ acts'[j] = acts[j]
                       /\ fs' = fs
                  ELSE jpc'[j] = "n_chk_tool" /\ acts'[j] = acts[j]
            /\ (jpc[j] = "n_chk_tool" /\ jpc'[j] # jpc[j]) =>
                  IF tool_present
                  THEN jpc'[j] = "n_run" /\ acts'[j] = acts[j]
                  ELSE jpc'[j] = "ret" /\ jret'[j] = "fail" /\ acts'[j] = acts[j]
            /\ acts'[j].tool # acts[j].tool =>
                  /\ jpc[j] = "n_run"
                  /\ tool_present
                  /\ jpc'[j] \in {"n_rc_zero", "n_rc_nonzero"}
            /\ (jpc[j] = "n_run" /\ jpc'[j] = "ret") =>
                  jret'[j] = "fail" /\ acts'[j] = acts[j]
            /\ (jpc[j] = "n_rc_zero" /\ jpc'[j] # jpc[j]) =>
                  jpc'[j] = "ret" /\ jret'[j] = "ok"
            /\ (jpc[j] = "n_rc_nonzero" /\ jpc'[j] # jpc[j]) =>
                  jpc'[j] = "ret" /\ jret'[j] = "fail"]_vars

\* A job of the nanairo pipeline has returned True from the fetch without a
\* run of the tool, on a file <output_name>.mkv.
C27_Witness ==
    /\ pipeline = "nanairo"
    /\ \E j \in DOMAIN jpc :
          /\ jret[j] = "ok"
          /\ calls[j] = << "Resolving", "Fetching" >>
          /\ acts[j].tool = 0
          /\ ".mkv" \in File(j).saved
          /\ ".mp4" \notin File(j).saved

\* C30: the decrypt tool is started only when the temporary output of
\* the identifier does not exist.
C30_NoTempAtToolStart ==
    [][\A j \in DOMAIN jpc :
          acts'[j].tool # acts[j].tool => ~fs[Key(j)].temp]_vars

\* C32: the decrypt tool is started only when the raw video file and the
\* raw audio file of the identifier are complete, also when an earlier run
\* has left one of them partial.
C32_RawCompleteAtToolStart ==
    [][\A j \in DOMAIN jpc :
          (jpc[j] = "dec_run" /\ acts'[j].tool # acts[j].tool) =>
              /\ fs[Key(j)].video = "complete"
              /\ fs[Key(j)].audio = "complete"]_vars

\* The raw files a job has open for writing: download_file is between
\* open(output_path, mode) and the end of its chunk loop.
Downloading(j) ==
    CASE jpc[j] = "write_video" -> {"video"}
      [] jpc[j] = "write_audio" -> {"audio"}
      [] OTHER -> {}

\* C33: no two workers work on the same path at the same time: while a job
\* downloads to a raw file, no other job downloads to that file, and no step
\* of another job deletes or replaces it.
C33_NoSharedPath ==
    [][\A j, k \in DOMAIN jpc :
          (j # k /\ Key(j) = Key(k)) =>
              \A f \in Downloading(j) :
                  /\ f \notin Downloading(k)
                  /\ jpc'[k] # jpc[k] => fs'[Key(j)][f] = fs[Key(j)][f]]_vars

(***************************************************************************)
(* The two ledgers together: a property of Spec.                           *)
(***************************************************************************)

\* The line is in the ledger file, compared as process_id compares
\* identifiers (lower case).
InLedger(file, cid) == \E n \in 1..Len(file) : Lower(file[n]) = Lower(cid)

\* C34: at the end of a run every identifier in the failed ledger is still
\* in the work-list file, and no identifier of the list that is gone from
\* the work-list file is in the failed ledger (identifiers compared without
\* regard to case).
C34_LedgersPartition ==
    runpc = "done" =>
        /\ \A n \in 1..Len(failed_file) : InLedger(ids_file, failed_file[n])
        /\ \A j \in Jobs :
              ~InLedger(ids_file, ids[j]) => ~InLedger(failed_file, ids[j])

(***************************************************************************)
(* Titles: properties of SpecTitle.                                        *)
(***************************************************************************)

\* C31: the string _sanitize_filename returns holds none of the characters
\* < > : " / \ | ? *, neither begins nor ends with a space or a dot and has
\* at most 200 characters, and extract_video_title never returns the empty
\* string.
C31_CleanTitle ==
    /\ page.pc = "sanitized" =>
          /\ \A i \in 1..Len(page.ret) : page.ret[i] \notin InvalidChars
          /\ page.ret # << >> =>
                /\ page.ret[1] \notin {" ", "."}
                /\ page.ret[Len(page.ret)] \notin {" ", "."}
          /\ Len(page.ret) <= NameLimit
    /\ page.pc = "extracted" => page.ret # << >>

====
